---------------------------- MODULE Spec2Model ----------------------------
(***************************************************************************)
(* Model of certfuzz/debuggers/output_parsers/debugger_file_base.py:       *)
(* the DebuggerFile line pass, backtrace normalisation, hashable backtrace *)
(* construction and testcase signature.                                    *)
(*                                                                         *)
(* A document line is the record of what the module's regular expressions  *)
(* and substring tests see in it (one field per regex group / test).       *)
(* A backtrace entry is the record of what the frame regexes see in the    *)
(* assembled frame text.  Python None is the string None below.            *)
(***************************************************************************)
EXTENDS Integers, Sequences, FiniteSets, TLC

\* self       the DebuggerFile object, one field per attribute
\* pc         the position in __init__ / _process_file; "done" once the
\*            object is constructed
\* idx        the number of lines _process_lines has processed
\* sig, level the value returned by the last get_testcase_signature call and
\*            its argument
\* History of the run, read by the properties only:
\* registry0  line_callbacks as it was when the last line started
\* called     the callbacks invoked on the last line, in order
\* assembled  the backtrace as the line pass assembled it
\* outcomes   what each backtrace entry did in the loop of _hashable_backtrace
\* returned   the first value get_testcase_signature returned for each level,
\*            where the calls are logged
\* other      a second object, constructed from a second document, where two
\*            documents are compared
\* bt_type    what detect_format returned for the document
VARIABLES self, pc, idx, called, registry0, assembled, outcomes, sig, level,
          returned, other, bt_type

vars == <<self, pc, idx, called, registry0, assembled, outcomes, sig, level,
          returned, other, bt_type>>

None == "<None>"

\* value of level before get_testcase_signature is first called
NoCall == -1

\* value of other where no second document is parsed
NoObject == <<>>

\* Python truthiness of an optional string
Truthy(x) == x # None /\ x # ""

-----------------------------------------------------------------------------
(* Bounds of the model *)

MaxLines == 3

MaxLevel == 2

\* lines of the second document, where two documents are compared
MaxOther == 2

-----------------------------------------------------------------------------
(* Module-level tables *)

registers == <<"eax", "ecx", "edx", "ebx", "esp", "ebp", "esi",
               "edi", "eip", "cs", "ss", "ds", "es", "fs", "gs">>

registers64 == <<"rax", "rbx", "rcx", "rdx", "rsi", "rdi", "rbp",
                 "rsp", "r8", "r9", "r10", "r11", "r12", "r13", "r14",
                 "r15", "rip", "cs", "ss", "ds", "es", "fs", "gs">>

blacklist == {"__kernel_vsyscall", "abort", "raise", "malloc", "free",
              "*__GI_abort", "*__GI_raise", "malloc_printerr", "__libc_message",
              "malloc_consolidate", "_int_malloc", "__libc_calloc",
              "_dl_new_object", "_dl_map_object_from_fd", "_dl_catch_error",
              "_dl_open", "do_dlopen", "dlerror_run", "*__GI___libc_dlopen_mode",
              "_dl_map_object", "dl_open_worker", "munmap_chunk", "*__GI___backtrace",
              "_dl_addr_inside_object", "_int_free", "*__GI___libc_free",
              "__malloc_assert", "sYSMALLOc", "_int_realloc", "*__GI___libc_malloc",
              "*__GI___libc_realloc", "_int_memalign", "*__GI___libc_memalign",
              "__posix_memalign", "__libc_malloc", "__libc_realloc",
              "g_assertion_message", "g_assertion_message_expr"}

\* int(x, 16) on the hex literals that occur in the documents of the model
int16(x) ==
    CASE x = "0x0" -> 0
      [] x = "0x00000000" -> 0
      [] x = "0x10" -> 16
      [] x = "0x20" -> 32
      [] x = "0x23" -> 35
      [] x = "0x30" -> 48
      [] x = "0x40" -> 64
      [] x = "0x44" -> 68
      [] x = "0x50" -> 80
      [] x = "0x55" -> 85
      [] x = "0x60" -> 96
      [] x = "0x65" -> 101
      [] x = "0x70" -> 112
      [] x = "0x90" -> 144
      [] x = "0x000000010" -> 16
      [] x = "0x000000020" -> 32
      [] x = "0x08048000" -> 134512640
      [] x = "0x08049000" -> 134516736
      [] x = "0x000000040" -> 64

\* '/sysdeps/' in bt_frame, on the source locations that occur in the model
InSysdeps(loc) == loc \in {"../sysdeps/unix/raise.c:64"}

-----------------------------------------------------------------------------
(* Frames and lines *)

\* What the frame regexes see in one backtrace entry:
\*   addr    group(1) of bt_addr matched at the start of the entry
\*   fn      group(1) of bt_function
\*   at      group(1) of bt_at
\*   assert  '__assert_fail' in bt
\*   inqq    'in ??' in bt
Frame(text, addr, fn, at) ==
    [text |-> text, addr |-> addr, fn |-> fn, at |-> at,
     assert |-> FALSE, inqq |-> (fn = "??")]

NoFrame == [text |-> None, addr |-> None, fn |-> None, at |-> None,
            assert |-> FALSE, inqq |-> FALSE]

NoMap == [start |-> None, end |-> None, objfile |-> None]

\* A line in which no regex of the module matches and no substring test holds
Plain(text, word0) ==
    [text      |-> text,     \* the stripped line
     bt_basic  |-> FALSE,    \* bt_line_basic matches
     bt_item   |-> NoFrame,  \* group(1) of bt_line, as a frame
     from_at   |-> FALSE,    \* bt_line_from or bt_line_at is found
     quit_eq   |-> FALSE,    \* "Quit anyway" in line or " = " in line
     c_fn      |-> None,     \* bt_function group contributed as continuation
     c_at      |-> None,     \* bt_at group contributed as continuation
     c_assert  |-> FALSE,    \* '__assert_fail' in line
     c_inqq    |-> FALSE,    \* 'in ??' in line
     lead_addr |-> None,     \* group(1) of bt_addr matched on the line
     exit_code |-> None,     \* group(1) of exit_code
     at_sp     |-> FALSE,    \* ' at ' in line
     corrupt   |-> FALSE,    \* 'corrupt stack' in line
     map       |-> NoMap,    \* groups 1, 2, 4 of mapped_frame
     libc      |-> FALSE,    \* libc_location matches
     libgcc    |-> FALSE,    \* libgcc_location matches
     signal    |-> None,     \* group(1) of signal
     marker    |-> None,     \* first of SIGKILL, SIGHUP, SIGXFSZ,
                             \* 'Program exited normally' found in line
     word0     |-> word0,    \* line.split()[0], "" when the line is empty
     reg_hex   |-> None,     \* group(1) of register on the rest of the line
     reg_val   |-> None,     \* group(2) of register on the rest of the line
     faddr     |-> None,     \* group(1) of faddr
     exp       |-> None,     \* group(1) of exploitability
     det_konqi |-> FALSE,    \* detect_konqi matches
     det_abrt  |-> FALSE,    \* detect_abrt matches
     det_gdb   |-> FALSE]    \* detect_gdb matches

FrameLine(text, word0, fr) ==
    [Plain(text, word0) EXCEPT !.bt_basic = TRUE, !.bt_item = fr,
                               !.det_gdb = TRUE,
                               !.at_sp = (fr.at # None),
                               !.from_at = (fr.at # None),
                               !.c_inqq = fr.inqq]

MapLine(text, start, end, objfile) ==
    [Plain(text, start) EXCEPT !.lead_addr = start,
                               !.map = [start |-> start, end |-> end,
                                        objfile |-> objfile]]

RegLine(text, r, hex, val) ==
    [Plain(text, r) EXCEPT !.reg_hex = hex, !.reg_val = val]

\* The concrete lines documents are made of
LFoo      == FrameLine("#0  0x20 in foo () at bar.c:42", "#0",
                       Frame("0x20 in foo () at bar.c:42", "0x20", "foo", "bar.c:42"))
LMain     == FrameLine("#1  0x30 in main ()", "#1",
                       Frame("0x30 in main ()", "0x30", "main", None))
LWild     == FrameLine("#2  0x90 in ?? ()", "#2",
                       Frame("0x90 in ?? ()", "0x90", "??", None))
LZero     == FrameLine("#3  0x00000000 in ?? ()", "#3",
                       Frame("0x00000000 in ?? ()", "0x00000000", "??", None))
LNoAddr   == FrameLine("#0  bar ()", "#0",
                       Frame("bar ()", None, None, None))
LMap      == MapLine("0x10 0x40 0x30 0x0 /usr/bin/prog", "0x10", "0x40",
                     "/usr/bin/prog")
LMap64    == MapLine("0x000000010 0x000000040 0x30 0x0 /usr/bin/prog",
                     "0x000000010", "0x000000040", "/usr/bin/prog")
LLibc     == [MapLine("0x50 0x60 0x10 0x0 /lib/libc-2.15.so", "0x50", "0x60",
                      "/lib/libc-2.15.so") EXCEPT !.libc = TRUE]
LExit3    == [Plain("Program exited with code 3", "Program")
                 EXCEPT !.exit_code = "3"]
LExit7    == [Plain("Program exited with code 7 at exit", "Program")
                 EXCEPT !.exit_code = "7", !.at_sp = TRUE, !.from_at = TRUE]
LKill     == [Plain("Program terminated with signal SIGKILL, Killed.", "Program")
                 EXCEPT !.marker = "SIGKILL"]
LAbrt     == [Plain("Program received signal SIGABRT, Aborted.", "Program")
                 EXCEPT !.signal = "SIGABRT"]
LEip      == RegLine("eip 0x20 0x20 <foo+4>", "eip", "0x20", "0x20 <foo+4>")
LCs       == RegLine("cs 0x23 35", "cs", "0x23", "35")
LFaddr    == [Plain("si_addr:$2 = (void *) 0x44", "si_addr:$2")
                 EXCEPT !.faddr = "0x44", !.quit_eq = TRUE]
LCorrupt  == [Plain("Backtrace stopped: previous frame inner to this frame (corrupt stack?)",
                    "Backtrace") EXCEPT !.corrupt = TRUE]
LExp      == [Plain("Exploitability Classification: EXPLOITABLE", "Exploitability")
                 EXCEPT !.exp = "EXPLOITABLE"]
LEmpty    == Plain("", "")
LLibcFrame == FrameLine("#1  0x55 in memcpy ()", "#1",
                        Frame("0x55 in memcpy ()", "0x55", "memcpy", None))
LSysdeps  == FrameLine("#1  0x30 in bar () at ../sysdeps/unix/raise.c:64", "#1",
                       Frame("0x30 in bar () at ../sysdeps/unix/raise.c:64",
                             "0x30", "bar", "../sysdeps/unix/raise.c:64"))
LEdge     == FrameLine("#2  0x50 in edge ()", "#2",
                       Frame("0x50 in edge ()", "0x50", "edge", None))
LLibgcc   == [MapLine("0x60 0x70 0x10 0x0 /lib/libgcc_s.so.1", "0x60", "0x70",
                      "/lib/libgcc_s.so.1") EXCEPT !.libgcc = TRUE]
LLibgccFrame == FrameLine("#2  0x65 in _Unwind_Resume ()", "#2",
                          Frame("0x65 in _Unwind_Resume ()", "0x65",
                                "_Unwind_Resume", None))
LFaddr2   == [Plain("si_addr:$3 = (void *) 0x90", "si_addr:$3")
                 EXCEPT !.faddr = "0x90", !.quit_eq = TRUE]
LSegv     == [Plain("Program received signal SIGSEGV, Segmentation fault.", "Program")
                 EXCEPT !.signal = "SIGSEGV"]
LExp2     == [Plain("Exploitability Classification: PROBABLY_NOT_EXPLOITABLE",
                    "Exploitability") EXCEPT !.exp = "PROBABLY_NOT_EXPLOITABLE"]
LMap32    == MapLine("0x08048000 0x08049000 0x1000 0x0 /usr/bin/prog",
                     "0x08048000", "0x08049000", "/usr/bin/prog")
LFrame64  == FrameLine("#0  0x000000020 in foo ()", "#0",
                       Frame("0x000000020 in foo ()", "0x000000020", "foo", None))
LRip      == RegLine("rip 0x000000020 0x20 <foo+4>", "rip", "0x000000020",
                     "0x20 <foo+4>")
LKonqi    == [Plain("-- Backtrace:", "--") EXCEPT !.det_konqi = TRUE]
LCore     == [Plain("Core was generated by `/usr/bin/prog'.", "Core")
                 EXCEPT !.det_abrt = TRUE]
LFrom     == [Plain("from /lib/x.so", "from") EXCEPT !.from_at = TRUE]
LAt       == [Plain("at m.c:1", "at") EXCEPT !.from_at = TRUE, !.c_at = "m.c:1"]
LQuit     == [Plain("x = at y", "x") EXCEPT !.from_at = TRUE, !.quit_eq = TRUE,
                                           !.at_sp = TRUE]
LHash     == [Plain("#1x", "#1x") EXCEPT !.bt_basic = TRUE]
LRaise    == FrameLine("#0  0x20 in raise ()", "#0",
                       Frame("0x20 in raise ()", "0x20", "raise", None))

\* Documents of the line-pass specification and of the backtrace specification
ExtractLines == {LFoo, LMap64, LExit3, LExit7, LKill, LAbrt, LEip, LCs,
                 LFaddr, LCorrupt, LExp, LEmpty}

BacktraceLines == {LFoo, LMain, LWild, LZero, LNoAddr, LMap, LLibc, LExit3,
                   LEip, LFaddr, LCorrupt}

Docs(A) == UNION {[1..k -> A] : k \in 0..MaxLines}


-----------------------------------------------------------------------------
(* Small helpers for Python containers *)

\* d[k] = v on a dict
DictSet(d, k, v) == [x \in DOMAIN d \cup {k} |-> IF x = k THEN v ELSE d[x]]

\* d.get(k)
DictGet(d, k) == IF k \in DOMAIN d THEN d[k] ELSE None

EmptyDict == [x \in {} |-> None]

\* x in list
InList(x, l) == \E i \in 1..Len(l) : l[i] = x

\* list.remove(x): drops the first occurrence
ListRemove(l, x) ==
    LET i == CHOOSE j \in 1..Len(l) : l[j] = x /\ \A k \in 1..(j - 1) : l[k] # x
    IN  SubSeq(l, 1, i - 1) \o SubSeq(l, i + 1, Len(l))

\* del list[i] (1-based here)
ListDel(l, i) == SubSeq(l, 1, i - 1) \o SubSeq(l, i + 1, Len(l))

-----------------------------------------------------------------------------
(* Format detection *)

\* False is None here
check_thread_type(line) ==
    IF line.det_konqi THEN "konqi"
    ELSE IF line.det_abrt THEN "abrt"
    ELSE IF line.det_gdb THEN "gdb"
    ELSE None

\* a variant that looks for each dialect in the whole document in turn
detect_format_by_dialect(lines, i) ==
    IF \E j \in i..Len(lines) : lines[j].det_konqi THEN "konqi"
    ELSE IF \E j \in i..Len(lines) : lines[j].det_abrt THEN "abrt"
    ELSE IF \E j \in i..Len(lines) : lines[j].det_gdb THEN "gdb"
    ELSE "UnknownDebuggerError"

\* detect_format from line i on; the error raised is the value returned
RECURSIVE detect_format(_, _)
detect_format(lines, i) ==
    IF i > Len(lines) THEN "UnknownDebuggerError"
    ELSE LET thread_format == check_thread_type(lines[i])
         IN  IF Truthy(thread_format) THEN thread_format
             ELSE detect_format(lines, i + 1)

-----------------------------------------------------------------------------
(* DebuggerFile.__init__ up to _read_file *)

DebuggerFile(lines, exclude_unmapped_frames, keep_uniq_faddr) ==
    [lines |-> lines,
     exclude_unmapped_frames |-> exclude_unmapped_frames,
     backtrace |-> <<>>,
     registers |-> EmptyDict,
     registers_sought |-> registers,
     registers_hex |-> EmptyDict,
     hashable_backtrace |-> <<>>,
     hashable_backtrace_string |-> "",
     module_map |-> <<>>,
     exit_code |-> None,
     signal |-> None,
     is_corrupt_stack |-> FALSE,
     is_crash |-> TRUE,
     is_assert_fail |-> FALSE,
     is_debugbuild |-> FALSE,
     libc_start_addr |-> 0,
     libc_end_addr |-> 0,
     libgcc_start_addr |-> 0,
     libgcc_end_addr |-> 0,
     used_pc |-> FALSE,
     debugger_missed_stack_corruption |-> FALSE,
     total_stack_corruption |-> FALSE,
     pc_in_function |-> FALSE,
     is_64bit |-> FALSE,
     pc_name |-> "eip",
     keep_uniq_faddr |-> keep_uniq_faddr,
     faddr |-> None,
     exp |-> "UNKNOWN",
     line_callbacks |-> <<"_look_for_64bit",
                          "_look_for_exit_code",
                          "_look_for_debug_build",
                          "_look_for_corrupt_stack",
                          "_look_for_libc_location",
                          "_look_for_libgcc_location",
                          "_look_for_signal",
                          "_look_for_crash",
                          "_look_for_registers",
                          "_look_for_faddr",
                          "_build_module_map",
                          "_look_for_exploitability">>]

-----------------------------------------------------------------------------
(* The backtrace assembler *)

\* ' '.join((item, nextline)), as the frame regexes see the result
JoinFrame(item, nextline) ==
    [text   |-> item.text \o " " \o nextline.text,
     addr   |-> item.addr,
     fn     |-> IF nextline.c_fn # None THEN nextline.c_fn ELSE item.fn,
     at     |-> IF item.at # None THEN item.at ELSE nextline.c_at,
     assert |-> item.assert \/ nextline.c_assert,
     inqq   |-> item.inqq \/ nextline.c_inqq]

\* the while loop of backtrace_line
RECURSIVE ScanContinuation(_, _, _)
ScanContinuation(lines, next_idx, item) ==
    IF next_idx > Len(lines) THEN item
    ELSE LET nextline == lines[next_idx] IN
         IF nextline.bt_basic THEN item
         ELSE IF nextline.from_at /\ ~nextline.quit_eq
              THEN ScanContinuation(lines, next_idx + 1, JoinFrame(item, nextline))
              ELSE ScanContinuation(lines, next_idx + 1, item)

backtrace_line(s, i, l) ==
    IF l.bt_item # NoFrame
    THEN [s EXCEPT !.backtrace =
              Append(@, ScanContinuation(s.lines, i + 1, l.bt_item))]
    ELSE s

-----------------------------------------------------------------------------
(* The line callbacks *)

\* a variant that counts the characters of the address, '0x' included,
\* against 8
_look_for_64bit_chars(s, line) ==
    IF s.is_64bit THEN s
    ELSE IF line.lead_addr # None /\ Len(line.lead_addr) > 8
         THEN [s EXCEPT !.is_64bit = TRUE, !.pc_name = "rip",
                        !.registers_sought = registers64]
         ELSE s

_look_for_64bit(s, line) ==
    IF s.is_64bit THEN s
    ELSE IF line.lead_addr # None /\ Len(line.lead_addr) > 10
         THEN [s EXCEPT !.is_64bit = TRUE,
                        !.pc_name = "rip",
                        !.registers_sought = registers64]
         ELSE s

\* as _look_for_exit_code, staying in the registry
_look_for_exit_code_stays(s, line) ==
    IF line.exit_code # None
    THEN [s EXCEPT !.exit_code = line.exit_code]
    ELSE s

_look_for_exit_code(s, line) ==
    IF line.exit_code # None
    THEN [s EXCEPT !.exit_code = line.exit_code,
                   !.line_callbacks = ListRemove(@, "_look_for_exit_code")]
    ELSE s

_look_for_debug_build(s, line) ==
    IF s.is_debugbuild THEN s
    ELSE IF line.at_sp THEN [s EXCEPT !.is_debugbuild = TRUE] ELSE s

_look_for_corrupt_stack(s, line) ==
    IF s.is_corrupt_stack THEN s
    ELSE IF line.corrupt THEN [s EXCEPT !.is_corrupt_stack = TRUE] ELSE s

_look_for_libc_location(s, line) ==
    IF s.libc_start_addr # 0 THEN s
    ELSE IF line.libc
         THEN [s EXCEPT !.libc_start_addr = int16(line.map.start),
                        !.libc_end_addr = int16(line.map.end)]
         ELSE s

_look_for_libgcc_location(s, line) ==
    IF s.libgcc_start_addr # 0 THEN s
    ELSE IF line.libgcc
         THEN [s EXCEPT !.libgcc_start_addr = int16(line.map.start),
                        !.libgcc_end_addr = int16(line.map.end)]
         ELSE s

\* a variant without the early return: the last signal line wins
_look_for_signal_last(s, line) ==
    IF line.signal # None
    THEN [s EXCEPT !.signal = line.signal,
                   !.faddr = IF line.signal = "SIGABRT" THEN "0" ELSE @]
    ELSE s

_look_for_signal(s, line) ==
    IF Truthy(s.signal) THEN s
    ELSE IF line.signal # None
         THEN [s EXCEPT !.signal = line.signal,
                        !.faddr = IF line.signal = "SIGABRT" THEN "0" ELSE @]
         ELSE s

\* as _look_for_crash, without the SIGKILL test
_look_for_crash_no_kill(s, line) ==
    IF ~s.is_crash THEN s
    ELSE IF line.marker \in {"SIGHUP", "SIGXFSZ", "Program exited normally"}
         THEN [s EXCEPT !.is_crash = FALSE]
         ELSE s

_look_for_crash(s, line) ==
    IF ~s.is_crash THEN s
    ELSE IF line.marker \in {"SIGKILL", "SIGHUP", "SIGXFSZ",
                             "Program exited normally"}
         THEN [s EXCEPT !.is_crash = FALSE]
         ELSE s

_look_for_registers(s, line) ==
    IF Len(s.registers_sought) = 0 THEN s
    ELSE IF line.word0 = "" THEN s
    ELSE IF ~InList(line.word0, s.registers_sought) THEN s
    ELSE IF line.reg_hex = None THEN s
    ELSE [s EXCEPT !.registers_hex = DictSet(@, line.word0, line.reg_hex),
                   !.registers = DictSet(@, line.word0, line.reg_val),
                   !.registers_sought = ListRemove(@, line.word0)]

\* a variant without the early return: the last si_addr line wins
_look_for_faddr_last(s, line) ==
    IF line.faddr # None THEN [s EXCEPT !.faddr = line.faddr] ELSE s

_look_for_faddr(s, line) ==
    IF Truthy(s.faddr) THEN s
    ELSE IF line.faddr # None THEN [s EXCEPT !.faddr = line.faddr] ELSE s

_build_module_map(s, line) ==
    IF line.map # NoMap
    THEN [s EXCEPT !.module_map =
              Append(@, [start   |-> int16(line.map.start),
                         end     |-> int16(line.map.end),
                         objfile |-> line.map.objfile])]
    ELSE s

\* a variant that takes the forced address '0' for no address
_look_for_exploitability_zero(s, line) ==
    IF Truthy(s.faddr) /\ s.faddr # "0" THEN s
    ELSE IF line.exp # None THEN [s EXCEPT !.exp = line.exp] ELSE s

_look_for_exploitability(s, line) ==
    IF Truthy(s.faddr) THEN s
    ELSE IF line.exp # None THEN [s EXCEPT !.exp = line.exp] ELSE s

\* callback(line)
Call(callback, s, line) ==
    CASE callback = "_look_for_64bit"           -> _look_for_64bit(s, line)
      [] callback = "_look_for_exit_code"       -> _look_for_exit_code(s, line)
      [] callback = "_look_for_debug_build"     -> _look_for_debug_build(s, line)
      [] callback = "_look_for_corrupt_stack"   -> _look_for_corrupt_stack(s, line)
      [] callback = "_look_for_libc_location"   -> _look_for_libc_location(s, line)
      [] callback = "_look_for_libgcc_location" -> _look_for_libgcc_location(s, line)
      [] callback = "_look_for_signal"          -> _look_for_signal(s, line)
      [] callback = "_look_for_crash"           -> _look_for_crash(s, line)
      [] callback = "_look_for_registers"       -> _look_for_registers(s, line)
      [] callback = "_look_for_faddr"           -> _look_for_faddr(s, line)
      [] callback = "_build_module_map"         -> _build_module_map(s, line)
      [] callback = "_look_for_exploitability"  -> _look_for_exploitability(s, line)

\* "for callback in self.line_callbacks: callback(line)": the list iterator
\* holds a position i into the list as it is at each step; log collects the
\* callbacks invoked.
RECURSIVE ForCallbacks(_, _, _, _)
ForCallbacks(s, line, i, log) ==
    IF i > Len(s.line_callbacks) THEN [s |-> s, log |-> log]
    ELSE LET callback == s.line_callbacks[i]
         IN  ForCallbacks(Call(callback, s, line), line, i + 1,
                          Append(log, callback))

\* the body of the for loop of _process_lines, for line number i
ProcessOneLine(s, i) ==
    ForCallbacks(backtrace_line(s, i, s.lines[i]), s.lines[i], 1, <<>>)

-----------------------------------------------------------------------------
(* The state machine *)

InitOver(A) ==
    /\ \E lines \in Docs(A), ex \in BOOLEAN, keep \in BOOLEAN :
           self = DebuggerFile(lines, ex, keep)
    /\ pc = "_process_lines"
    /\ idx = 0
    /\ called = <<>>
    /\ registry0 = <<>>
    /\ assembled = <<>>
    /\ outcomes = <<>>
    /\ sig = None
    /\ level = NoCall
    /\ returned = EmptyDict
    /\ other = NoObject
    /\ bt_type = None

Init == InitOver(ExtractLines)

\* one iteration of the loop of _process_lines; the loop ends after the
\* last line
ProcessLine ==
    /\ pc = "_process_lines"
    /\ idx < Len(self.lines)
    /\ LET r == ProcessOneLine(self, idx + 1) IN
         /\ self' = r.s
         /\ called' = r.log
         /\ registry0' = self.line_callbacks
         /\ assembled' = r.s.backtrace
    /\ idx' = idx + 1
    /\ pc' = IF idx + 1 = Len(self.lines) THEN "_process_backtrace" ELSE pc
    /\ UNCHANGED <<outcomes, sig, level, returned, other, bt_type>>

\* _process_lines on a document without lines
NoLines ==
    /\ pc = "_process_lines"
    /\ Len(self.lines) = 0
    /\ pc' = "_process_backtrace"
    /\ UNCHANGED <<self, idx, called, registry0, assembled, outcomes, sig, level, returned, other, bt_type>>


-----------------------------------------------------------------------------
(* Backtrace normalisation *)

\* _get_frame_address returns None when the entry has no leading address
NoAddr == -1

_get_frame_address(bt_line) ==
    IF bt_line.addr # None THEN int16(bt_line.addr) ELSE NoAddr

_is_mapped_frame(s, frame_address) ==
    IF Len(s.module_map) > 0
    THEN \E i \in 1..Len(s.module_map) :
             /\ s.module_map[i].start < frame_address
             /\ frame_address < s.module_map[i].end
    ELSE TRUE

\* the while loop of _look_for_debugger_missed_stack_corruption
RECURSIVE TrimOutermost(_)
TrimOutermost(s) ==
    IF Len(s.backtrace) = 0 THEN s
    ELSE LET frame_address == _get_frame_address(s.backtrace[Len(s.backtrace)])
         IN  IF frame_address # NoAddr /\ frame_address # 0
             THEN IF ~_is_mapped_frame(s, frame_address)
                  THEN TrimOutermost(
                           [s EXCEPT !.debugger_missed_stack_corruption = TRUE,
                                     !.backtrace = SubSeq(@, 1, Len(@) - 1)])
                  ELSE s
             ELSE s

_look_for_debugger_missed_stack_corruption(s) ==
    LET start_bt_length == Len(s.backtrace)
        t == TrimOutermost(s)
        end_bt_length == Len(t.backtrace)
    IN  IF start_bt_length # 0 /\ end_bt_length = 0
        THEN [t EXCEPT !.total_stack_corruption = TRUE]
        ELSE t

\* as DelUnmapped, testing "if frame_address:" as the trimming loop does
RECURSIVE DelUnmapped_truthy(_, _)
DelUnmapped_truthy(s, i) ==
    IF i < 1 THEN s
    ELSE LET frame_address == _get_frame_address(s.backtrace[i])
         IN  IF frame_address # NoAddr /\ frame_address # 0
                    /\ ~_is_mapped_frame(s, frame_address)
             THEN DelUnmapped_truthy([s EXCEPT !.backtrace = ListDel(@, i)], i - 1)
             ELSE DelUnmapped_truthy(s, i - 1)

\* the for loop of _remove_unmapped_frames, i running down to the first entry
RECURSIVE DelUnmapped(_, _)
DelUnmapped(s, i) ==
    IF i < 1 THEN s
    ELSE LET frame_address == _get_frame_address(s.backtrace[i])
         IN  IF frame_address # NoAddr /\ ~_is_mapped_frame(s, frame_address)
             THEN DelUnmapped([s EXCEPT !.backtrace = ListDel(@, i)], i - 1)
             ELSE DelUnmapped(s, i - 1)

\* as _remove_unmapped_frames, without the final emptiness test
_remove_unmapped_frames_silent(s) == DelUnmapped(s, Len(s.backtrace))

_remove_unmapped_frames(s) ==
    LET t == DelUnmapped(s, Len(s.backtrace))
    IN  IF Len(t.backtrace) = 0
        THEN [t EXCEPT !.total_stack_corruption = TRUE]
        ELSE t

_look_for_assert_fail(s) ==
    IF \E i \in 1..Len(s.backtrace) : s.backtrace[i].assert
    THEN [s EXCEPT !.is_assert_fail = TRUE]
    ELSE s

\* a variant that looks at the outermost entry
_check_pc_in_function_outermost(s) ==
    IF Len(s.backtrace) > 0 /\ ~s.backtrace[Len(s.backtrace)].inqq
    THEN [s EXCEPT !.pc_in_function = TRUE]
    ELSE s

_check_pc_in_function(s) ==
    IF Len(s.backtrace) > 0 /\ ~s.backtrace[1].inqq
    THEN [s EXCEPT !.pc_in_function = TRUE]
    ELSE s

-----------------------------------------------------------------------------
(* The hashable backtrace *)

\* One iteration of the for loop of _hashable_backtrace on entry bt, with
\* the value of used_pc before it: the token appended (None when the entry
\* appends nothing), whether the program counter stood in for the address,
\* and used_pc after it.
\* a variant that does not skip blacklisted functions
HashFrame_no_blacklist(s, used_pc, bt) ==
    LET n        == bt.addr # None
        pc_hex   == DictGet(s.registers_hex, s.pc_name)
        take_pc  == ~n /\ Truthy(pc_hex) /\ ~used_pc
        frame_address == IF n THEN int16(bt.addr)
                         ELSE IF take_pc THEN int16(pc_hex) ELSE 0
        bt_frame == IF bt.at # None THEN bt.at
                    ELSE IF n THEN bt.addr ELSE None
        skip     == \/ (s.libc_start_addr < frame_address
                            /\ frame_address < s.libc_end_addr)
                    \/ (s.libgcc_start_addr < frame_address
                            /\ frame_address < s.libgcc_end_addr)
                    \/ (bt.at # None /\ InSysdeps(bt.at))
    IN  [token    |-> IF ~skip /\ Truthy(bt_frame) THEN bt_frame ELSE None,
         took_pc  |-> take_pc,
         address  |-> frame_address,
         used_pc  |-> used_pc \/ take_pc]

\* a variant that does not skip the frames inside libc
HashFrame_no_libc(s, used_pc, bt) ==
    LET n        == bt.addr # None
        pc_hex   == DictGet(s.registers_hex, s.pc_name)
        take_pc  == ~n /\ Truthy(pc_hex) /\ ~used_pc
        frame_address == IF n THEN int16(bt.addr)
                         ELSE IF take_pc THEN int16(pc_hex) ELSE 0
        bt_frame == IF bt.at # None THEN bt.at
                    ELSE IF n THEN bt.addr ELSE None
        skip     == \/ (s.libgcc_start_addr < frame_address
                            /\ frame_address < s.libgcc_end_addr)
                    \/ (bt.fn # None /\ bt.fn \in blacklist)
                    \/ (bt.at # None /\ InSysdeps(bt.at))
    IN  [token    |-> IF ~skip /\ Truthy(bt_frame) THEN bt_frame ELSE None,
         took_pc  |-> take_pc,
         address  |-> frame_address,
         used_pc  |-> used_pc \/ take_pc]

\* a variant in which the address is kept where there is a source location
HashFrame_address_first(s, used_pc, bt) ==
    LET n        == bt.addr # None
        pc_hex   == DictGet(s.registers_hex, s.pc_name)
        take_pc  == ~n /\ Truthy(pc_hex) /\ ~used_pc
        frame_address == IF n THEN int16(bt.addr)
                         ELSE IF take_pc THEN int16(pc_hex) ELSE 0
        bt_frame == IF n THEN bt.addr
                    ELSE IF bt.at # None THEN bt.at ELSE None
        skip     == \/ (s.libc_start_addr < frame_address
                            /\ frame_address < s.libc_end_addr)
                    \/ (s.libgcc_start_addr < frame_address
                            /\ frame_address < s.libgcc_end_addr)
                    \/ (bt.fn # None /\ bt.fn \in blacklist)
                    \/ (bt.at # None /\ InSysdeps(bt.at))
    IN  [token    |-> IF ~skip /\ Truthy(bt_frame) THEN bt_frame ELSE None,
         took_pc  |-> take_pc,
         address  |-> frame_address,
         used_pc  |-> used_pc \/ take_pc]

HashFrame(s, used_pc, bt) ==
    LET n        == bt.addr # None
        pc_hex   == DictGet(s.registers_hex, s.pc_name)
        take_pc  == ~n /\ Truthy(pc_hex) /\ ~used_pc
        frame_address == IF n THEN int16(bt.addr)
                         ELSE IF take_pc THEN int16(pc_hex) ELSE 0
        bt_frame == IF bt.at # None THEN bt.at
                    ELSE IF n THEN bt.addr ELSE None
        skip     == \/ (s.libc_start_addr < frame_address
                            /\ frame_address < s.libc_end_addr)
                    \/ (s.libgcc_start_addr < frame_address
                            /\ frame_address < s.libgcc_end_addr)
                    \/ (bt.fn # None /\ bt.fn \in blacklist)
                    \/ (bt.at # None /\ InSysdeps(bt.at))
    IN  [token    |-> IF ~skip /\ Truthy(bt_frame) THEN bt_frame ELSE None,
         took_pc  |-> take_pc,
         address  |-> frame_address,
         used_pc  |-> used_pc \/ take_pc]

\* the for loop of _hashable_backtrace from entry i on: one record per entry
RECURSIVE HashFrames(_, _, _)
HashFrames(s, used_pc, i) ==
    IF i > Len(s.backtrace) THEN <<>>
    ELSE LET r == HashFrame(s, used_pc, s.backtrace[i])
         IN  <<r>> \o HashFrames(s, r.used_pc, i + 1)

\* the tokens appended by the for loop
Appended(rs) ==
    LET kept == SelectSeq(rs, LAMBDA r : r.token # None)
    IN  [i \in 1..Len(kept) |-> kept[i].token]

\* a variant without the raw first entry
Fallback_no_raw(s) ==
    LET h1 == IF s.total_stack_corruption THEN <<"total_stack_corruption">>
              ELSE <<>>
    IN  IF Truthy(s.exit_code)
        THEN Append(h1, "exit_code:" \o s.exit_code)
        ELSE h1

\* "try a few more things to get something to hash"
Fallback(s) ==
    LET h1 == IF s.total_stack_corruption THEN <<"total_stack_corruption">>
              ELSE <<>>
    IN  IF Truthy(s.exit_code)
        THEN Append(h1, "exit_code:" \o s.exit_code)
        ELSE IF Len(s.backtrace) > 0 /\ Truthy(s.backtrace[1].text)
             THEN Append(h1, s.backtrace[1].text)
             ELSE h1

_hashable_backtrace(s) ==
    IF Len(s.hashable_backtrace) # 0 THEN s
    ELSE LET rs       == HashFrames(s, s.used_pc, 1)
             used     == IF Len(rs) = 0 THEN s.used_pc ELSE rs[Len(rs)].used_pc
             hashable == IF Len(Appended(rs)) # 0 THEN Appended(rs)
                         ELSE Fallback(s)
         IN  [s EXCEPT !.used_pc = used,
                       !.is_crash = IF Len(hashable) = 0 THEN FALSE ELSE @,
                       !.hashable_backtrace = hashable]

-----------------------------------------------------------------------------
(* The signature *)

\* ' '.join(l), kept as the pieces that are concatenated
RECURSIVE JoinSpace(_)
JoinSpace(l) ==
    IF Len(l) = 0 THEN <<>>
    ELSE IF Len(l) = 1 THEN l
    ELSE <<l[1], " ">> \o JoinSpace(Tail(l))

\* str.strip() on pieces none of which has white space next to other text
RECURSIVE Strip(_)
Strip(p) ==
    IF Len(p) = 0 THEN p
    ELSE IF p[1] \in {"", " "} THEN Strip(Tail(p))
    ELSE IF p[Len(p)] \in {"", " "} THEN Strip(SubSeq(p, 1, Len(p) - 1))
    ELSE p

\* the string made of the pieces
RECURSIVE Concat(_)
Concat(p) == IF Len(p) = 0 THEN "" ELSE p[1] \o Concat(Tail(p))

\* l[:n] for n >= 0
Slice(l, n) == SubSeq(l, 1, IF n < Len(l) THEN n ELSE Len(l))

\* _process_lines as a whole, from line i on
RECURSIVE _process_lines(_, _)
_process_lines(s, i) ==
    IF i > Len(s.lines) THEN s
    ELSE _process_lines(ProcessOneLine(s, i).s, i + 1)

_process_backtrace(s) ==
    IF Len(s.backtrace) = 0 THEN s
    ELSE LET a == IF s.is_corrupt_stack
                  THEN [s EXCEPT !.backtrace = SubSeq(@, 1, Len(@) - 1)]
                  ELSE _look_for_debugger_missed_stack_corruption(s)
             b == IF a.exclude_unmapped_frames
                  THEN _remove_unmapped_frames(a)
                  ELSE a
         IN  _check_pc_in_function(_look_for_assert_fail(b))

\* the constructor from _read_file on, in one piece
_process_file(s) ==
    _hashable_backtrace(_process_backtrace(_process_lines(s, 1)))

\* a variant in which an empty join leaves the stored string in place
_hashable_backtrace_string_stale(s, lvl) ==
    LET joined == Concat(Strip(JoinSpace(Slice(s.hashable_backtrace, lvl))))
    IN  IF joined = "" /\ Truthy(s.hashable_backtrace_string)
        THEN s.hashable_backtrace_string
        ELSE IF s.keep_uniq_faddr /\ s.faddr # None
        THEN joined \o " " \o s.faddr
        ELSE joined

_hashable_backtrace_string(s, lvl) ==
    LET joined == Concat(Strip(JoinSpace(Slice(s.hashable_backtrace, lvl))))
    IN  IF s.keep_uniq_faddr /\ s.faddr # None
        THEN joined \o " " \o s.faddr
        ELSE joined

\* hashlib.md5(x).hexdigest()
md5(x) == "md5(" \o x \o ")"

-----------------------------------------------------------------------------
(* The rest of the state machine *)

\* a variant that pops the last entry only if it has an address
ProcessBacktrace_addressed_only ==
    /\ pc = "_process_backtrace"
    /\ IF Len(self.backtrace) = 0
       THEN /\ pc' = "_hashable_backtrace"
            /\ self' = self
       ELSE /\ pc' = "_remove_unmapped_frames"
            /\ self' = IF self.is_corrupt_stack
                       THEN IF self.backtrace[Len(self.backtrace)].addr # None
                            THEN [self EXCEPT !.backtrace = SubSeq(@, 1, Len(@) - 1)]
                            ELSE self
                       ELSE _look_for_debugger_missed_stack_corruption(self)
    /\ UNCHANGED <<idx, called, registry0, assembled, outcomes, sig, level, returned, other, bt_type>>

\* _process_backtrace, up to the corrupt-stack handling
ProcessBacktrace ==
    /\ pc = "_process_backtrace"
    /\ IF Len(self.backtrace) = 0
       THEN /\ pc' = "_hashable_backtrace"
            /\ self' = self
       ELSE /\ pc' = "_remove_unmapped_frames"
            /\ self' = IF self.is_corrupt_stack
                       THEN [self EXCEPT !.backtrace = SubSeq(@, 1, Len(@) - 1)]
                       ELSE _look_for_debugger_missed_stack_corruption(self)
    /\ UNCHANGED <<idx, called, registry0, assembled, outcomes, sig, level, returned, other, bt_type>>

\* _process_backtrace: "if self.exclude_unmapped_frames: ..."
RemoveUnmappedFrames ==
    /\ pc = "_remove_unmapped_frames"
    /\ self' = IF self.exclude_unmapped_frames
               THEN _remove_unmapped_frames(self)
               ELSE self
    /\ pc' = "_look_for_assert_fail"
    /\ UNCHANGED <<idx, called, registry0, assembled, outcomes, sig, level, returned, other, bt_type>>

\* _process_backtrace: its last two calls
CheckBacktrace ==
    /\ pc = "_look_for_assert_fail"
    /\ self' = _check_pc_in_function(_look_for_assert_fail(self))
    /\ pc' = "_hashable_backtrace"
    /\ UNCHANGED <<idx, called, registry0, assembled, outcomes, sig, level, returned, other, bt_type>>

\* _process_file: the call of _hashable_backtrace
HashableBacktrace ==
    /\ pc = "_hashable_backtrace"
    /\ self' = _hashable_backtrace(self)
    /\ outcomes' = HashFrames(self, self.used_pc, 1)
    /\ pc' = "done"
    /\ UNCHANGED <<idx, called, registry0, assembled, sig, level, returned, other, bt_type>>

\* get_testcase_signature(backtrace_level) on the constructed object
get_testcase_signature ==
    /\ pc = "done"
    /\ \E backtrace_level \in 0..MaxLevel :
         LET backtrace_string == _hashable_backtrace_string(self, backtrace_level)
         IN  /\ self' = [self EXCEPT !.hashable_backtrace_string = backtrace_string]
             /\ sig' = IF backtrace_string # "" THEN md5(backtrace_string)
                       ELSE None
             /\ level' = backtrace_level
    /\ pc' = pc
    /\ UNCHANGED <<idx, called, registry0, assembled, outcomes, returned, other, bt_type>>

\* get_testcase_signature(backtrace_level), with the returned value logged:
\* the first value for each level, and whether the level was asked again
get_testcase_signature_logged ==
    /\ pc = "done"
    /\ \E backtrace_level \in 0..MaxLevel :
         LET backtrace_string == _hashable_backtrace_string(self, backtrace_level)
             value == IF backtrace_string # "" THEN md5(backtrace_string)
                      ELSE None
         IN  /\ self' = [self EXCEPT !.hashable_backtrace_string = backtrace_string]
             /\ sig' = value
             /\ level' = backtrace_level
             /\ returned' =
                    IF backtrace_level \in DOMAIN returned
                    THEN [returned EXCEPT ![backtrace_level].again = TRUE]
                    ELSE DictSet(returned, backtrace_level,
                                 [value |-> value, again |-> FALSE])
    /\ pc' = pc
    /\ UNCHANGED <<idx, called, registry0, assembled, outcomes, other, bt_type>>

Next ==
    \/ ProcessLine
    \/ NoLines
    \/ ProcessBacktrace
    \/ RemoveUnmappedFrames
    \/ CheckBacktrace
    \/ HashableBacktrace
    \/ get_testcase_signature

Spec == Init /\ [][Next]_vars

InitBacktrace == InitOver(BacktraceLines)

SpecBacktrace == InitBacktrace /\ [][Next]_vars

\* The run in which the calls of get_testcase_signature are logged
NextLogged ==
    \/ ProcessLine
    \/ NoLines
    \/ ProcessBacktrace
    \/ RemoveUnmappedFrames
    \/ CheckBacktrace
    \/ HashableBacktrace
    \/ get_testcase_signature_logged

SignatureLines == {LFoo, LMain, LFaddr, LExit3}

InitLogged == InitOver(SignatureLines)

SpecLogged == InitLogged /\ [][NextLogged]_vars

\* The run in which a second document has been parsed by a second object
\* with the same settings, keep_uniq_faddr disabled
PairLines == {LFoo, LLibc, LLibcFrame, LRaise}

InitPair ==
    /\ \E lines \in Docs(PairLines),
          lines2 \in UNION {[1..k -> PairLines] : k \in 0..MaxOther},
          ex \in BOOLEAN :
           /\ self = DebuggerFile(lines, ex, FALSE)
           /\ other = _process_file(DebuggerFile(lines2, ex, FALSE))
    /\ pc = "_process_lines"
    /\ idx = 0
    /\ called = <<>>
    /\ registry0 = <<>>
    /\ assembled = <<>>
    /\ outcomes = <<>>
    /\ sig = None
    /\ level = NoCall
    /\ returned = EmptyDict
    /\ bt_type = None

SpecPair == InitPair /\ [][Next]_vars

\* Documents of signal, si_addr and classification lines
SignalLines == {LFoo, LAbrt, LSegv, LFaddr, LFaddr2, LExp, LExp2}

InitSignal == InitOver(SignalLines)

SpecSignal == InitSignal /\ [][Next]_vars

\* detect_format on the file of the document
DetectFormat ==
    /\ bt_type = None
    /\ bt_type' = detect_format(self.lines, 1)
    /\ UNCHANGED <<self, pc, idx, called, registry0, assembled, outcomes, sig,
                   level, returned, other>>

NextDetect == DetectFormat

DetectLines == {LKonqi, LCore, LFoo, LNoAddr, LExit3, LEmpty}

InitDetect == InitOver(DetectLines)

SpecDetect == InitDetect /\ [][NextDetect]_vars

\* Documents of frames split across lines
AssemblerLines == {LFoo, LMain, LFrom, LAt, LQuit, LHash, LEmpty}

InitAssembler == InitOver(AssemblerLines)

SpecAssembler == InitAssembler /\ [][Next]_vars

\* Documents of address lines and register lines
ArchLines == {LMap, LMap32, LMap64, LFrame64, LFoo, LEip, LRip, LCs}

InitArch == InitOver(ArchLines)

SpecArch == InitArch /\ [][Next]_vars

\* Documents for the frames the loop of _hashable_backtrace skips
TokenLines == {LFoo, LMain, LNoAddr, LLibc, LLibcFrame, LEdge, LLibgcc,
               LLibgccFrame, LRaise, LSysdeps, LEip, LExit3}

InitTokens == InitOver(TokenLines)

SpecTokens == InitTokens /\ [][Next]_vars


-----------------------------------------------------------------------------
(* Properties *)

Processed == 1..idx

Normalised == pc \in {"_hashable_backtrace", "done"}

\* C1: on every line, each extractor that is in the registry when the line
\* starts is invoked exactly once on the line, in registration order; the
\* line on which the exit-code extractor removes itself included.
C1_EveryExtractorOncePerLine == called = registry0

\* C2: registers_sought shares no name with the keys of registers and of
\* registers_hex, in every state of the line pass and after it; a register
\* that was found is not sought again.
C2_SoughtDisjointFromFound ==
    \A i \in 1..Len(self.registers_sought) :
        /\ self.registers_sought[i] \notin DOMAIN self.registers
        /\ self.registers_sought[i] \notin DOMAIN self.registers_hex

\* C3: once a line containing SIGKILL has been processed is_crash is false,
\* so it is false after construction whatever the document holds besides;
\* and once is_crash is false no step sets it back to true.
C3_SigkillIsNoCrash ==
    /\ [](\A i \in Processed :
              self.lines[i].marker = "SIGKILL" => ~self.is_crash)
    /\ [][~self.is_crash => ~self'.is_crash]_vars

C3_Witness ==
    /\ pc = "done"
    /\ level # NoCall
    /\ \E i \in Processed : self.lines[i].marker = "SIGKILL"
    /\ Len(self.backtrace) > 0
    /\ Len(self.hashable_backtrace) > 0
    /\ self.exit_code # None
    /\ ~self.is_crash

\* the frame is neither in the libc range nor in the libgcc range
OutsideRuntime(s, a) ==
    /\ ~(s.libc_start_addr < a /\ a < s.libc_end_addr)
    /\ ~(s.libgcc_start_addr < a /\ a < s.libgcc_end_addr)

\* C4: a frame without an address for which the program counter stood in,
\* which is outside the libc and libgcc ranges, is not blacklisted and has no
\* source location, emits the program counter's hex string as its token; the
\* program counter stands in at most once per parse.
C4_PcTokenEmitted ==
    pc = "done" =>
        /\ \A i \in 1..Len(outcomes) :
               (/\ outcomes[i].took_pc
                /\ OutsideRuntime(self, outcomes[i].address)
                /\ ~(self.backtrace[i].fn \in blacklist)
                /\ self.backtrace[i].at = None)
               => outcomes[i].token = DictGet(self.registers_hex, self.pc_name)
        /\ Cardinality({i \in 1..Len(outcomes) : outcomes[i].took_pc}) <= 1

\* C5: when no frame contributes a token the token list is chosen by strict
\* priority: the corruption token alone, else the exit-code token alone, else
\* the first backtrace entry alone, else nothing.
C5_FallbackPriority ==
    (pc = "done" /\ Len(Appended(outcomes)) = 0) =>
        self.hashable_backtrace =
            IF self.total_stack_corruption THEN <<"total_stack_corruption">>
            ELSE IF self.exit_code # None
                 THEN <<"exit_code:" \o self.exit_code>>
                 ELSE IF Len(self.backtrace) > 0
                      THEN <<self.backtrace[1].text>>
                      ELSE <<>>

\* ' '.join(l) as one string
RECURSIVE Joined(_)
Joined(l) ==
    IF Len(l) = 0 THEN ""
    ELSE IF Len(l) = 1 THEN l[1]
    ELSE l[1] \o " " \o Joined(Tail(l))

\* C6: the signature is absent whenever the token list is empty, whatever
\* keep_uniq_faddr and faddr are; otherwise it is the digest of the first
\* level tokens joined by spaces, followed by a space and the faulting
\* address only when keep_uniq_faddr is set and an address was captured.
C6_SignatureOfTokens ==
    level # NoCall =>
        /\ Len(self.hashable_backtrace) = 0 => sig = None
        /\ sig # None =>
               sig = md5(Joined(Slice(self.hashable_backtrace, level))
                           \o (IF self.keep_uniq_faddr /\ self.faddr # None
                               THEN " " \o self.faddr ELSE ""))

\* C7: after the missed-corruption heuristic the outermost remaining frame
\* carries a mapped address or no address token at all (0x0 is an address);
\* frames were dropped only with debugger_missed_stack_corruption set, and
\* an emptied backtrace sets total_stack_corruption.
C7_OutermostTrimmed ==
    (pc = "_remove_unmapped_frames" /\ ~self.is_corrupt_stack) =>
        /\ \/ Len(self.backtrace) = 0
           \/ self.backtrace[Len(self.backtrace)].addr = None
           \/ _is_mapped_frame(self,
                  int16(self.backtrace[Len(self.backtrace)].addr))
        /\ Len(self.backtrace) < Len(assembled)
               => self.debugger_missed_stack_corruption
        /\ Len(self.backtrace) = 0 => self.total_stack_corruption

\* a is b with entries left out
RECURSIVE IsSubsequence(_, _)
IsSubsequence(a, b) ==
    IF Len(a) = 0 THEN TRUE
    ELSE IF Len(b) = 0 THEN FALSE
    ELSE IF a[1] = b[1] THEN IsSubsequence(Tail(a), Tail(b))
    ELSE IsSubsequence(a, Tail(b))

\* the address ranges of all memory-map lines of the document
DocumentRanges ==
    {[start |-> int16(self.lines[i].map.start),
      end   |-> int16(self.lines[i].map.end)] :
        i \in {j \in 1..Len(self.lines) : self.lines[j].map # NoMap}}

MappedInDocument(a) ==
    DocumentRanges = {} \/ \E r \in DocumentRanges : r.start < a /\ a < r.end

\* C8: the backtrace is always the assembled backtrace with entries left
\* out; with exclude_unmapped_frames, after the normalisation of a non-empty
\* backtrace every surviving frame that has an address is mapped by the
\* memory-map lines of the whole document.
C8_MappedSubsequence ==
    /\ IsSubsequence(self.backtrace, assembled)
    /\ (Normalised /\ self.exclude_unmapped_frames /\ Len(assembled) > 0) =>
           \A i \in 1..Len(self.backtrace) :
               \/ self.backtrace[i].addr = None
               \/ MappedInDocument(int16(self.backtrace[i].addr))

C8_Witness ==
    /\ pc = "done"
    /\ self.exclude_unmapped_frames
    /\ \E i, j \in 1..Len(self.lines) :
           i < j /\ self.lines[i].bt_item # NoFrame /\ self.lines[j].map # NoMap
    /\ Len(self.backtrace) > 0
    /\ Len(self.backtrace) < Len(assembled)
    /\ self.backtrace[1] # assembled[1]

\* the filtering of unmapped frames removed all frames
AllFramesFiltered ==
    /\ Len(assembled) > 0
    /\ Len(self.backtrace) = 0
    /\ self.is_corrupt_stack => Len(assembled) >= 2

\* C9: when the filtering of unmapped frames leaves nothing of a non-empty
\* backtrace, total_stack_corruption is set and the token list starts with
\* the corruption token; total_stack_corruption is set only when the
\* backtrace was not empty before normalisation and is empty after it.
C9_TotalCorruption ==
    /\ (Normalised /\ AllFramesFiltered) => self.total_stack_corruption
    /\ (pc = "done" /\ AllFramesFiltered) =>
           /\ Len(self.hashable_backtrace) > 0
           /\ self.hashable_backtrace[1] = "total_stack_corruption"
    /\ self.total_stack_corruption =>
           Len(assembled) > 0 /\ Len(self.backtrace) = 0

C9_Witness ==
    /\ pc = "done"
    /\ Len(assembled) >= 2
    /\ ~self.debugger_missed_stack_corruption
    /\ self.total_stack_corruption
    /\ self.hashable_backtrace[1] = "total_stack_corruption"

\* the exit code of the first exit-code line among the first n lines
RECURSIVE FirstExitCode(_, _, _)
FirstExitCode(lines, i, n) ==
    IF i > n THEN None
    ELSE IF lines[i].exit_code # None THEN lines[i].exit_code
    ELSE FirstExitCode(lines, i + 1, n)

\* C10: exit_code is the N of the first "Program exited with code N" line
\* processed so far, and unset when there was none; later lines, other
\* exit-code lines included, leave it alone.
C10_FirstExitCodeWins == self.exit_code = FirstExitCode(self.lines, 1, idx)

C10_Witness ==
    /\ pc = "done"
    /\ \E i, j \in Processed :
           /\ i < j
           /\ self.lines[i].exit_code = "3"
           /\ self.lines[j].exit_code = "7"
    /\ self.exit_code = "3"

-----------------------------------------------------------------------------
(* C11: get_testcase_signature is a pure function of the parsed state and
   the depth: whatever calls came before, a call with a depth that was asked
   before returns the value the first call with that depth returned, and no
   call changes the backtrace, the hashable token list, is_crash,
   total_stack_corruption, exit_code, signal, faddr or used_pc. *)

\* the attributes the claim says no call changes
Parsed(s) == <<s.backtrace, s.hashable_backtrace, s.is_crash,
               s.total_stack_corruption, s.exit_code, s.signal, s.faddr,
               s.used_pc>>

\* C11: every call returns what the first call with its depth returned,
\* and leaves the parsed attributes as they were
C11_SignatureIsPure ==
    /\ [](level # NoCall => level \in DOMAIN returned
                            /\ sig = returned[level].value)
    /\ [][pc = "done" => Parsed(self') = Parsed(self)]_vars

\* a depth asked twice, with another depth that returned something else
C11_Witness ==
    /\ level # NoCall
    /\ returned[level].again
    /\ sig # None
    /\ \E l \in DOMAIN returned : returned[l].again /\ returned[l].value # sig

-----------------------------------------------------------------------------
(* C12: with keep_uniq_faddr disabled, two documents whose normalized
   backtraces differ only in noise (frames inside the libc or libgcc range,
   blacklisted functions, /sysdeps/ locations) have the same hashable token
   list and the same signature at every depth. *)

\* the frame is one the loop of _hashable_backtrace skips as noise
Noise(s, fr, address) ==
    \/ (s.libc_start_addr < address /\ address < s.libc_end_addr)
    \/ (s.libgcc_start_addr < address /\ address < s.libgcc_end_addr)
    \/ (fr.fn # None /\ fr.fn \in blacklist)
    \/ (fr.at # None /\ InSysdeps(fr.at))

\* the frames of the normalized backtrace that are not noise, in order
RemainingFrames(s, outs) ==
    LET all  == [i \in 1..Len(s.backtrace) |-> i]
        kept == SelectSeq(all, LAMBDA i : ~Noise(s, s.backtrace[i], outs[i].address))
    IN  [j \in 1..Len(kept) |-> s.backtrace[kept[j]]]

\* what get_testcase_signature(lvl) returns on s
SigOf(s, lvl) ==
    LET b == _hashable_backtrace_string(s, lvl)
    IN  IF b # "" THEN md5(b) ELSE None

DifferOnlyInNoise ==
    /\ pc = "done"
    /\ other # NoObject
    /\ ~self.keep_uniq_faddr /\ ~other.keep_uniq_faddr
    /\ RemainingFrames(self, outcomes)
         = RemainingFrames(other, HashFrames(other, FALSE, 1))

SameTokensAndSignature ==
    /\ self.hashable_backtrace = other.hashable_backtrace
    /\ level # NoCall => sig = SigOf(other, level)

\* C12 as stated (the documents also agree on exit code and total
\* corruption), which the raw-first-entry fallback violates
C12_NoiseInvariant ==
    (/\ DifferOnlyInNoise
     /\ self.exit_code = other.exit_code
     /\ self.total_stack_corruption = other.total_stack_corruption)
        => SameTokensAndSignature

\* C12 amended: the same, where at least one remaining frame yields a token
C12_NoiseInvariantWithToken ==
    (DifferOnlyInNoise /\ Len(Appended(outcomes)) > 0)
        => SameTokensAndSignature

\* two documents with different noise around the same remaining frame
C12_Witness ==
    /\ DifferOnlyInNoise
    /\ Len(Appended(outcomes)) > 0
    /\ Len(RemainingFrames(self, outcomes)) < Len(self.backtrace)
    /\ Len(other.backtrace) > 0
    /\ \A i \in 1..Len(other.backtrace) : other.backtrace[i] # self.backtrace[1]
    /\ level # NoCall /\ sig # None

-----------------------------------------------------------------------------
(* C13: each frame of the normalized backtrace contributes no token if its
   address is strictly inside the libc or libgcc range, its function is
   blacklisted or its source location contains /sysdeps/; otherwise it
   contributes its source location if it has one and else its hex address
   string; the tokens are in backtrace order. *)

\* frame i is skipped as noise where it must be, gives its source location
\* or else its address where it has one, and where it has neither gives
\* what the last argument allows
FrameRule(i, neither(_)) ==
    LET fr == self.backtrace[i]
        o  == outcomes[i]
    IN  IF Noise(self, fr, o.address) THEN o.token = None
        ELSE IF fr.at # None THEN o.token = fr.at
        ELSE IF fr.addr # None THEN o.token = fr.addr
        ELSE o.took_pc \/ neither(o)

TokensInOrder ==
    Len(Appended(outcomes)) > 0 => self.hashable_backtrace = Appended(outcomes)

\* C13 as stated: every frame that is not skipped contributes one token
\* (the frame that takes the program counter is left to C4)
C13_OneTokenPerFrame ==
    pc = "done" =>
        /\ \A i \in 1..Len(self.backtrace) :
               FrameRule(i, LAMBDA o : o.token # None)
        /\ TokensInOrder

\* C13 amended: a frame with neither source location nor address
\* contributes no token
C13_TokenPerFrame ==
    pc = "done" =>
        /\ \A i \in 1..Len(self.backtrace) :
               FrameRule(i, LAMBDA o : o.token = None)
        /\ TokensInOrder

\* a skipped frame, then a source location, then an address
C13_Witness ==
    /\ pc = "done"
    /\ Len(self.backtrace) = 3
    /\ Noise(self, self.backtrace[1], outcomes[1].address)
    /\ self.backtrace[2].at # None
    /\ self.backtrace[3].at = None
    /\ self.hashable_backtrace = <<self.backtrace[2].at, self.backtrace[3].addr>>

-----------------------------------------------------------------------------
(* C14: a document whose normalized backtrace has only frames inside the
   recorded libc range has no token from its frames, and its token list
   comes from the fallback. *)

OnlyLibcFrames ==
    /\ pc = "done"
    /\ Len(self.backtrace) > 0
    /\ \A i \in 1..Len(self.backtrace) :
          /\ self.backtrace[i].addr # None
          /\ self.libc_start_addr < int16(self.backtrace[i].addr)
          /\ int16(self.backtrace[i].addr) < self.libc_end_addr

\* C14 as stated: every token is the corruption token or the exit-code token
C14_LibcOnlyFallsBack ==
    OnlyLibcFrames =>
        /\ Appended(outcomes) = <<>>
        /\ \A k \in 1..Len(self.hashable_backtrace) :
              \/ self.hashable_backtrace[k] = "total_stack_corruption"
              \/ /\ Truthy(self.exit_code)
                 /\ self.hashable_backtrace[k] = "exit_code:" \o self.exit_code

\* C14 amended: the token list is the exit-code token if an exit code was
\* captured and else the raw first entry of the backtrace
C14_LibcOnlyFallsBackToRaw ==
    OnlyLibcFrames =>
        /\ Appended(outcomes) = <<>>
        /\ self.hashable_backtrace =
              IF Truthy(self.exit_code)
              THEN <<"exit_code:" \o self.exit_code>>
              ELSE <<self.backtrace[1].text>>

C14_Witness ==
    /\ OnlyLibcFrames
    /\ Len(self.backtrace) = 2
    /\ self.exit_code = None
    /\ self.hashable_backtrace = <<self.backtrace[1].text>>

-----------------------------------------------------------------------------
(* C15: when no frame contributes a token, total_stack_corruption is not set
   and no exit code was captured, the token list is exactly the first entry
   of the backtrace as assembled before normalization, if there was one, and
   only a document without such an entry is reclassified as not a crash. *)
C15_RawFirstEntryFallback ==
    (/\ pc = "done"
     /\ Appended(outcomes) = <<>>
     /\ ~self.total_stack_corruption
     /\ self.exit_code = None)
        => IF Len(assembled) > 0
           THEN /\ self.hashable_backtrace = <<assembled[1].text>>
                /\ self.is_crash
           ELSE /\ self.hashable_backtrace = <<>>
                /\ ~self.is_crash

-----------------------------------------------------------------------------
(* Signal, faulting address and exploitability over the lines processed *)

\* the first processed line that satisfies P, 0 if there is none
FirstLine(P(_)) ==
    LET S == {i \in Processed : P(self.lines[i])}
    IN  IF S = {} THEN 0 ELSE CHOOSE i \in S : \A j \in S : i <= j

IsSignalLine(l) == l.signal # None

IsAbortLine(l) == l.signal = "SIGABRT"

IsFaddrLine(l) == l.faddr # None

\* the signal of the first signal line
FirstSignal ==
    IF FirstLine(IsSignalLine) = 0 THEN None
    ELSE self.lines[FirstLine(IsSignalLine)].signal

\* the value of the first si_addr line
FirstFaddr ==
    IF FirstLine(IsFaddrLine) = 0 THEN None
    ELSE self.lines[FirstLine(IsFaddrLine)].faddr

(* C16: the faulting-address extractor is one-shot: the first si_addr value
   seen is the faulting address, and no later line changes it, a later
   'Program received signal' line included. *)
C16_FaddrOneShot ==
    FirstFaddr # None => self.faddr = FirstFaddr

\* C16 amended: the same, but for the first signal line of the document,
\* which forces the faulting address to '0' if its signal is SIGABRT
C16_FaddrOneShotButAbort ==
    self.faddr = IF FirstSignal = "SIGABRT" THEN "0" ELSE FirstFaddr

\* two si_addr lines and a later signal line that is not SIGABRT
C16_Witness ==
    /\ idx = 3
    /\ self.lines[1].faddr # None
    /\ self.lines[2].faddr # None
    /\ self.lines[2].faddr # self.lines[1].faddr
    /\ self.lines[3].signal = "SIGSEGV"
    /\ self.faddr = self.lines[1].faddr

(* C17: the signal is recorded once, from the first signal line; if it is
   SIGABRT the faulting address is '0' at the end of the parse, whatever
   si_addr lines came before or after. *)
\* C17: signal is that of the first signal line; SIGABRT ends with faddr '0'
C17_SignalOnceAbortZero ==
    /\ self.signal = FirstSignal
    /\ (pc # "_process_lines" /\ self.signal = "SIGABRT") => self.faddr = "0"

\* a si_addr line before and after the SIGABRT line
C17_Witness ==
    /\ pc = "done"
    /\ Len(self.lines) = 3
    /\ self.lines[1].faddr # None
    /\ self.lines[2].signal = "SIGABRT"
    /\ self.lines[3].faddr # None
    /\ self.faddr = "0"

(* C18: a classification line sets exploitability to its X if and only if
   no faulting address is recorded when the line is processed; hence
   exploitability is the X of the last classification line before the first
   recording of a faulting address, and its initial value if there is none. *)

\* a line that records a faulting address, as C18 states it: a si_addr line
\* or a SIGABRT signal line
RecordsAsStated(l) == IsFaddrLine(l) \/ IsAbortLine(l)

\* the X of the last classification line among the first n processed lines,
\* the initial value if there is none
RECURSIVE LastClassification(_)
LastClassification(n) ==
    IF n = 0 THEN "UNKNOWN"
    ELSE IF self.lines[n].exp # None THEN self.lines[n].exp
    ELSE LastClassification(n - 1)

\* the lines before line r, all processed lines if r = 0
Before(r) == IF r = 0 THEN idx ELSE r - 1

\* a classification line sets exp if and only if faddr is not recorded
SetsIffUnrecorded ==
    [][(pc = "_process_lines" /\ idx < Len(self.lines)
           /\ self.lines[idx + 1].exp # None)
         => self'.exp = IF self.faddr = None THEN self.lines[idx + 1].exp
                        ELSE self.exp]_vars

\* C18 as stated
C18_ExploitabilityBeforeFaddr ==
    /\ SetsIffUnrecorded
    /\ [](self.exp = LastClassification(Before(FirstLine(RecordsAsStated))))

\* C18 amended: a SIGABRT signal line records a faulting address only if it
\* is the first signal line of the document
C18_ExploitabilityBeforeRecorded ==
    /\ SetsIffUnrecorded
    /\ [](self.exp =
            LastClassification(Before(
                IF FirstSignal = "SIGABRT"
                   /\ (FirstLine(IsFaddrLine) = 0
                       \/ FirstLine(IsSignalLine) < FirstLine(IsFaddrLine))
                THEN FirstLine(IsSignalLine)
                ELSE FirstLine(IsFaddrLine))))

\* two classifications, then SIGABRT, then a classification that is ignored
C18_Witness ==
    /\ idx = 3
    /\ self.lines[1].exp # None
    /\ self.lines[2].signal = "SIGABRT"
    /\ self.lines[3].exp # None
    /\ self.lines[3].exp # self.lines[1].exp
    /\ self.exp = self.lines[1].exp
    /\ self.faddr = "0"

-----------------------------------------------------------------------------
(* C19: the first address line whose address has more than 8 hex digits
   sets is_64bit, makes the program counter 'rip' and registers_sought the
   64-bit register set; after address lines of 8 digits or fewer the mode is
   32-bit (is_64bit false, 'eip', sought registers among the 32-bit ones);
   is_64bit is never cleared and no later address line resets
   registers_sought. *)

\* an address line: bt_addr matches at the start of the line
HexDigits(l) == IF l.lead_addr = None THEN 0 ELSE Len(l.lead_addr) - 2

LongAddressSeen == \E i \in Processed : HexDigits(self.lines[i]) > 8

-----------------------------------------------------------------------------
(* C20: detect_format returns the dialect of the earliest line that matches
   a marker, konqi before abrt before gdb on that line; it fails with the
   unrecognized-format error if and only if no line matches a marker; it
   changes no state. *)

HasMarker(l) == l.det_konqi \/ l.det_abrt \/ l.det_gdb

MarkerLines == {i \in 1..Len(self.lines) : HasMarker(self.lines[i])}

EarliestMarker == CHOOSE i \in MarkerLines : \A j \in MarkerLines : i <= j

\* C20: the result is the dialect of the earliest marker line, the error
\* exactly when there is none, and the call leaves the object alone
C20_DetectFormat ==
    /\ [](bt_type # None =>
            IF MarkerLines = {} THEN bt_type = "UnknownDebuggerError"
            ELSE /\ bt_type # "UnknownDebuggerError"
                 /\ bt_type = IF self.lines[EarliestMarker].det_konqi THEN "konqi"
                              ELSE IF self.lines[EarliestMarker].det_abrt THEN "abrt"
                              ELSE "gdb")
    /\ [][bt_type' # bt_type => self' = self]_vars

\* an unmarked line, then the abrt marker, then the konqi marker
C20_Witness ==
    /\ bt_type = "abrt"
    /\ Len(self.lines) = 3
    /\ ~HasMarker(self.lines[1])
    /\ self.lines[2].det_abrt
    /\ self.lines[3].det_konqi

-----------------------------------------------------------------------------
(* C21: the assembler makes one backtrace entry per frame-start line, in
   document order; a later line is joined to the entry of the nearest
   preceding frame-start line if it has the word 'from' or 'at' and neither
   'Quit anyway' nor ' = '; other lines are passed over; only the next
   frame-start line or the end of the document ends the scan. *)

\* a frame-start line: bt_line matches, the line starts an entry
IsFrameStart(l) == l.bt_item # NoFrame

Qualifies(l) == l.from_at /\ ~l.quit_eq

\* the text of the entry begun before line j, continued from line j on
RECURSIVE EntryText(_, _)
EntryText(text, j) ==
    IF j > Len(self.lines) THEN text
    ELSE IF IsFrameStart(self.lines[j]) THEN text
    ELSE IF Qualifies(self.lines[j])
         THEN EntryText(text \o " " \o self.lines[j].text, j + 1)
         ELSE EntryText(text, j + 1)

\* the entries the claim describes for the lines from i on, among the
\* processed ones
RECURSIVE EntriesFrom(_)
EntriesFrom(i) ==
    IF i > idx THEN <<>>
    ELSE IF IsFrameStart(self.lines[i])
         THEN <<EntryText(self.lines[i].bt_item.text, i + 1)>> \o EntriesFrom(i + 1)
         ELSE EntriesFrom(i + 1)

C21_OneEntryPerFrameStart ==
    pc = "_process_lines" =>
        [k \in 1..Len(self.backtrace) |-> self.backtrace[k].text] = EntriesFrom(1)

\* C21 on the documents in which every line that starts with '#' and a
\* digit is a frame-start line
C21_WithoutBareHash ==
    (pc = "_process_lines"
       /\ \A i \in 1..Len(self.lines) :
              self.lines[i].bt_basic => IsFrameStart(self.lines[i]))
        => [k \in 1..Len(self.backtrace) |-> self.backtrace[k].text] = EntriesFrom(1)

-----------------------------------------------------------------------------
(* C22: with a non-empty backtrace and is_corrupt_stack set in the line
   pass, the first normalization step drops the last frame and nothing
   else, whatever that frame is, and debugger_missed_stack_corruption stays
   false; with an empty backtrace normalization changes no flag. *)

Flags(s) == <<s.total_stack_corruption, s.is_assert_fail, s.pc_in_function,
              s.debugger_missed_stack_corruption>>

\* the first step of _process_backtrace
CorruptStackStep ==
    [][(pc = "_process_backtrace" /\ Len(self.backtrace) > 0
            /\ self.is_corrupt_stack)
         => self' = [self EXCEPT !.backtrace = SubSeq(@, 1, Len(@) - 1)]]_vars

\* C22: the step, and what is true once normalization is over
C22_CorruptStackDropsLast ==
    /\ CorruptStackStep
    /\ [](pc \in {"_hashable_backtrace", "done"} =>
            /\ (Len(assembled) > 0 /\ self.is_corrupt_stack)
                   => ~self.debugger_missed_stack_corruption
            /\ Len(assembled) = 0
                   => /\ Flags(self) = <<FALSE, FALSE, FALSE, FALSE>>
                      /\ self.backtrace = <<>>)

\* the frame dropped has no address; the frame before it stays
C22_Witness ==
    /\ pc = "_remove_unmapped_frames"
    /\ self.is_corrupt_stack
    /\ Len(assembled) = 2
    /\ assembled[2].addr = None
    /\ self.backtrace = <<assembled[1]>>
    /\ assembled[1].addr # None

-----------------------------------------------------------------------------
(* C23: after a parse whose assembled backtrace was not empty,
   pc_in_function is true unless the text of the innermost frame that
   survives normalization contains 'in ??'; the same applies when
   normalization leaves no frame. *)

AfterNormalization ==
    pc \in {"_hashable_backtrace", "done"} /\ Len(assembled) > 0

\* C23 as stated; where no frame survives it asks for true, or for the
\* verdict on the innermost assembled frame
C23_PcInFunction ==
    AfterNormalization =>
        IF Len(self.backtrace) > 0
        THEN self.pc_in_function = ~self.backtrace[1].inqq
        ELSE self.pc_in_function \/ assembled[1].inqq

\* C23 amended: where no frame survives, pc_in_function stays false
C23_PcInSurvivingFunction ==
    AfterNormalization =>
        self.pc_in_function =
            (Len(self.backtrace) > 0 /\ ~self.backtrace[1].inqq)

\* the innermost assembled frame is unresolved and removed, the innermost
\* surviving one is resolved
C23_Witness ==
    /\ AfterNormalization
    /\ assembled[1].inqq
    /\ Len(self.backtrace) > 0
    /\ ~self.backtrace[1].inqq
    /\ self.pc_in_function

-----------------------------------------------------------------------------
(* C24: a backtrace that is not empty after normalization gives a token
   list that is not empty, an is_crash the builder leaves alone and a
   signature at every depth from 1 on; the token list is empty, and the
   builder clears is_crash, exactly when the normalized backtrace is empty,
   total_stack_corruption is false and there is no exit code. In a document
   without memory-map line normalization removes no frame but the one
   dropped for a reported corrupt stack, debugger_missed_stack_corruption is
   never set, and total_stack_corruption is never set where the backtrace
   had two frames or more. *)

NoMapLine == \A i \in 1..Len(self.lines) : self.lines[i].map = NoMap

NonEmptyMeansTokens ==
    pc = "done" =>
        /\ Len(self.backtrace) > 0
              => /\ Len(self.hashable_backtrace) > 0
                 /\ level >= 1 => sig # None
        /\ Len(self.hashable_backtrace) = 0
              <=> /\ Len(self.backtrace) = 0
                  /\ ~self.total_stack_corruption
                  /\ self.exit_code = None
        /\ Len(self.hashable_backtrace) = 0 => ~self.is_crash

BuilderAndIsCrash ==
    [][pc = "_hashable_backtrace"
         => self'.is_crash = IF Len(self'.hashable_backtrace) = 0 THEN FALSE
                             ELSE self.is_crash]_vars

NoMapMeansMapped ==
    (NoMapLine /\ pc \in {"_hashable_backtrace", "done"}) =>
        /\ ~self.debugger_missed_stack_corruption
        /\ self.backtrace = IF self.is_corrupt_stack /\ Len(assembled) > 0
                            THEN SubSeq(assembled, 1, Len(assembled) - 1)
                            ELSE assembled
        /\ Len(assembled) >= 2 => ~self.total_stack_corruption

\* C24: the three parts together
C24_NonEmptyBacktraceHasTokens ==
    /\ []NonEmptyMeansTokens
    /\ BuilderAndIsCrash
    /\ []NoMapMeansMapped

\* no memory map, a reported corrupt stack, frame filtering on: the frame
\* left has no token of its own and the raw entry is the token
C24_Witness ==
    /\ pc = "done"
    /\ NoMapLine
    /\ self.exclude_unmapped_frames
    /\ self.is_corrupt_stack
    /\ Len(assembled) = 2
    /\ Len(self.backtrace) = 1
    /\ Appended(outcomes) = <<>>
    /\ self.hashable_backtrace = <<self.backtrace[1].text>>
    /\ level >= 1
    /\ sig # None

=============================================================================
